---- MODULE Spec2Model ----
(***************************************************************************)
(* Assembly of the STAC FastAPI application by the StacApi factory         *)
(* (stac_fastapi/api/app.py).  The state is the factory's attributes, the  *)
(* capability client's injected binding, the factory's router, and the     *)
(* application's route table, exception handlers and state.  One StacApi   *)
(* construction runs __attrs_post_init__ statement by statement; the       *)
(* variable pc holds the position in it.  app_routes holds the routes this *)
(* code and the extension hooks add to the application.                    *)
(***************************************************************************)
EXTENDS Naturals, Sequences, FiniteSets, TLC

VARIABLES
    pc,                  \* position in __attrs_post_init__, "idle" before any construction
    settings,            \* self.settings
    client,              \* self.client: the attributes injected into it
    extensions,          \* self.extensions
    exceptions,          \* self.exceptions
    title,               \* self.title
    description,         \* self.description
    pagination_extension, \* self.pagination_extension: the class looked up for paging
    route_dependencies,  \* self.route_dependencies
    router_prefix,       \* self.router.prefix
    router_routes,       \* self.router.routes
    app_routes,          \* self.app.router.routes
    app_state,           \* self.app.state
    app_exception_handlers, \* handlers installed on self.app
    app_middleware,      \* self.app.user_middleware
    core_i,              \* next statement of register_core
    ext_i,               \* next extension of the register loop
    dep_i,               \* next entry of the route_dependencies loop
    overlay_log          \* history: the entries add_route_dependencies was called with

vars == <<pc, settings, client, extensions, exceptions, title, description,
          pagination_extension, route_dependencies, router_prefix, router_routes, app_routes,
          app_state, app_exception_handlers, app_middleware, core_i, ext_i, dep_i,
          overlay_log>>

-----------------------------------------------------------------------------
(* Bounds of the inputs *)

MaxExtensions == 2

MaxRouteDependencies == 2

-----------------------------------------------------------------------------
(* Values *)

None == "None"

Unset == "<unset>"

STAC_VERSION == "1.0.0"

\* Extension classes: the three classes of stac_fastapi.extensions.core the
\* factory looks up, and a third-party subclass of CollectionSearchExtension
\* whose register hook adds routes.
ExtensionTypes ==
    {"FieldsExtension", "CollectionSearchExtension", "TokenPaginationExtension",
     "CustomCollectionSearchExtension"}

\* The proper base classes of each extension class.
Bases(t) ==
    IF t = "CustomCollectionSearchExtension" THEN {"CollectionSearchExtension"} ELSE {}

\* isinstance(ext, T)
isinstance(ext, T) == ext.type = T \/ T \in Bases(ext.type)

\* The routes an extension's register hook adds, as (path template, method).
RegisterHook(t) ==
    IF t = "CustomCollectionSearchExtension"
    THEN << <<"/collections", "GET">>, <<"/collections", "POST">> >>
    ELSE << >>

\* An extension instance.
Extension(t) ==
    [type |-> t, default_includes |-> "includes:" \o t, GET |-> t \o ".GET"]

\* The value get_extension returns when nothing matches (Python's None).
NoExtension == [type |-> "NoneType", default_includes |-> "", GET |-> ""]

ExtensionPool == {Extension(t) : t \in ExtensionTypes}

SeqsUpTo(S, n) == UNION {[1..k -> S] : k \in 0..n}

ExtensionLists == SeqsUpTo(ExtensionPool, MaxExtensions)

\* Error kinds and the default status codes.
ErrorKinds == {"RequestValidationError", "NotFoundError", "ConflictError", "Exception"}

DEFAULT_STATUS_CODES ==
    [k \in ErrorKinds |->
        CASE k = "RequestValidationError" -> 400
          [] k = "NotFoundError" -> 404
          [] k = "ConflictError" -> 409
          [] OTHER -> 500]

\* The mappings a caller passes as exceptions=...
CallerExceptions ==
    { [k \in {"NotFoundError", "Exception"} |-> IF k = "NotFoundError" THEN 410 ELSE 503] }

\* Entries of route_dependencies: (scopes, dependencies).
Scope(path, method) == [path |-> path, method |-> method]

OverlayPool ==
    { [scopes |-> <<Scope("/search", "GET"), Scope("/_mgmt/ping", "GET")>>,
       dependencies |-> <<"oauth2">>],
      [scopes |-> <<Scope("/collections", "POST"), Scope("/search", "GET")>>,
       dependencies |-> <<"basic_auth", "audit">>] }

RouteDependencyLists == SeqsUpTo(OverlayPool, MaxRouteDependencies)

\* The classes a caller passes as pagination_extension=...; the first is the
\* default.
PaginationExtensionChoices == {"TokenPaginationExtension", "PaginationExtension"}

RouterPrefixes == {"", "/api"}

Titles == {"stac-fastapi"}

DefaultMiddlewares == <<"BrotliMiddleware", "CORSMiddleware", "ProxyHeaderMiddleware">>

-----------------------------------------------------------------------------
(* get_extension *)

RECURSIVE GetExtensionFrom_LastMatch(_, _, _)
\* Mutant: the loop does not return at the first match and keeps the last one.
GetExtensionFrom_LastMatch(exts, T, i) ==
    IF i > Len(exts) THEN NoExtension
    ELSE LET later == GetExtensionFrom_LastMatch(exts, T, i + 1)
         IN  IF later # NoExtension THEN later
             ELSE IF isinstance(exts[i], T) THEN exts[i]
             ELSE NoExtension

RECURSIVE GetExtensionFrom(_, _, _)
GetExtensionFrom(exts, T, i) ==
    IF i > Len(exts) THEN NoExtension
    ELSE IF isinstance(exts[i], T) THEN exts[i]
    ELSE GetExtensionFrom(exts, T, i + 1)

get_extension(T) == GetExtensionFrom(extensions, T, 1)

\* Python truth value of get_extension's result: None is false, an extension
\* object is true.
Truthy(x) == x # NoExtension

-----------------------------------------------------------------------------
(* Routes *)

\* create_request_model(name, base_model, mixins); mixins=None is the empty list.
create_request_model(name, base_model, mixins) ==
    [name |-> name, base |-> base_model, mixins |-> mixins]

FixedModel(m) == [name |-> m, base |-> m, mixins |-> << >>]

\* APIRouter.add_api_route on self.router: the route the call creates.
APIRoute(name, path, response_model, response_class, method, endpoint, request_model) ==
    [name |-> name, path |-> router_prefix \o path, method |-> method,
     response_model |-> response_model, response_class |-> response_class,
     endpoint |-> endpoint, request_model |-> request_model,
     dependencies |-> << >>]

IfResponseModels(m) == IF settings.enable_response_models THEN m ELSE None

\* The route each register_* method passes to self.router.add_api_route.
LandingPageRoute ==
    APIRoute("Landing Page", "/", IfResponseModels("LandingPage"), "response_class",
             "GET", "client.landing_page", FixedModel("EmptyRequest"))

ConformanceClassesRoute ==
    APIRoute("Conformance Classes", "/conformance", IfResponseModels("ConformanceClasses"),
             "response_class", "GET", "client.conformance", FixedModel("EmptyRequest"))

GetItemRoute ==
    APIRoute("Get Item",
             "/catalogs/{catalog_id}/collections/{collection_id}/items/{item_id}",
             IfResponseModels("Item"), "GeoJSONResponse", "GET", "client.get_item",
             FixedModel("ItemUri"))

\* Mutant: the fields extension is not looked up.
SearchResponseModel_IgnoresFields == IfResponseModels("ItemCollection")

\* (ItemCollection if not fields_ext else None) if enable_response_models else None
SearchResponseModel ==
    LET fields_ext == get_extension("FieldsExtension")
    IN  IF settings.enable_response_models
        THEN (IF ~Truthy(fields_ext) THEN "ItemCollection" ELSE None)
        ELSE None

PostGlobalSearchRoute ==
    APIRoute("Search", "/search", SearchResponseModel, "GeoJSONResponse", "POST",
             "client.post_global_search", FixedModel("search_post_request_model"))

GetGlobalSearchRoute ==
    APIRoute("Search", "/search", SearchResponseModel, "GeoJSONResponse", "GET",
             "client.get_global_search", FixedModel("search_get_request_model"))

PostSearchRoute ==
    APIRoute("Catalog Item Search", "/catalogs/{catalog_id}/search", SearchResponseModel,
             "GeoJSONResponse", "POST", "client.post_search",
             FixedModel("search_catalog_post_request_model"))

GetSearchRoute ==
    APIRoute("Catalog Item Search", "/catalogs/{catalog_id}/search", SearchResponseModel,
             "GeoJSONResponse", "GET", "client.get_search",
             FixedModel("search_catalog_get_request_model"))

\* Mutant: the collection-search extension is not looked up.
GetCollectionsRoute_IgnoresExtension ==
    APIRoute("Get Collections", "/collections", IfResponseModels("Collections"),
             "response_class", "GET", "client.all_collections",
             FixedModel("collections_get_request_model"))

GetCollectionsRoute ==
    LET collection_search_ext == get_extension("CollectionSearchExtension")
    IN  APIRoute("Get Collections", "/collections",
                 IF settings.enable_response_models
                 THEN (IF ~Truthy(collection_search_ext) THEN "Collections" ELSE None)
                 ELSE None,
                 "response_class", "GET", "client.all_collections",
                 FixedModel("collections_get_request_model"))

GetCatalogsRoute ==
    APIRoute("Get Catalogs", "/catalogs", IfResponseModels("Catalogs"), "response_class",
             "GET", "client.all_catalogs", FixedModel("EmptyRequest"))

GetCatalogCollectionsRoute ==
    APIRoute("Get CatalogCollections", "/catalogs/{catalog_id}/collections",
             IfResponseModels("Collections"), "response_class", "GET",
             "client.get_catalog_collections", FixedModel("CatalogUri"))

GetCollectionRoute ==
    APIRoute("Get Collection", "/catalogs/{catalog_id}/collections/{collection_id}",
             IfResponseModels("Collection"), "response_class", "GET",
             "client.get_collection", FixedModel("CollectionUri"))

GetCatalogRoute ==
    APIRoute("Get Catalog", "/catalogs/{catalog_id}", IfResponseModels("Catalog"),
             "response_class", "GET", "client.get_catalog", FixedModel("CatalogUri"))

\* Mutant: the lookup ignores self.pagination_extension and always asks for the
\* default class.
GetItemCollectionRoute_AlwaysTokenPagination ==
    LET pagination_ext == get_extension("TokenPaginationExtension")
        mixins == IF pagination_ext # NoExtension THEN <<pagination_ext.GET>> ELSE << >>
        request_model == create_request_model("ItemCollectionURI", "ItemCollectionUri", mixins)
    IN  APIRoute("Get ItemCollection",
                 "/catalogs/{catalog_id}/collections/{collection_id}/items",
                 IfResponseModels("ItemCollection"), "GeoJSONResponse", "GET",
                 "client.item_collection", request_model)

GetItemCollectionRoute ==
    LET pagination_ext == get_extension(pagination_extension)
        mixins == IF pagination_ext # NoExtension THEN <<pagination_ext.GET>> ELSE << >>
        request_model == create_request_model("ItemCollectionURI", "ItemCollectionUri", mixins)
    IN  APIRoute("Get ItemCollection",
                 "/catalogs/{catalog_id}/collections/{collection_id}/items",
                 IfResponseModels("ItemCollection"), "GeoJSONResponse", "GET",
                 "client.item_collection", request_model)

\* Mutant: register_get_catalogs is left out.
register_core_WithoutCatalogs ==
    <<"register_landing_page", "register_conformance_classes", "register_get_item",
      "register_post_global_search", "register_get_global_search",
      "register_post_search", "register_get_search", "register_get_collections",
      "register_get_collection", "register_get_catalog",
      "register_get_item_collection", "register_get_catalog_collections">>

\* Mutant: the collections listing is registered before the search routes.
register_core_CollectionsFirst ==
    <<"register_landing_page", "register_conformance_classes", "register_get_item",
      "register_get_collections",
      "register_post_global_search", "register_get_global_search",
      "register_post_search", "register_get_search",
      "register_get_catalogs", "register_get_collection", "register_get_catalog",
      "register_get_item_collection", "register_get_catalog_collections">>

\* The statements of register_core, in order.
register_core ==
    <<"register_landing_page", "register_conformance_classes", "register_get_item",
      "register_post_global_search", "register_get_global_search",
      "register_post_search", "register_get_search", "register_get_collections",
      "register_get_catalogs", "register_get_collection", "register_get_catalog",
      "register_get_item_collection", "register_get_catalog_collections">>

\* Mutant: the route dependencies are applied before the health check is added.
post_init_OverlaysBeforeHealthCheck ==
    <<"register_core", "include_router", "register_extensions",
      "add_route_dependencies", "add_health_check", "add_exception_handlers",
      "add_middlewares">>

\* The statements of __attrs_post_init__ after the injection of the settings.
post_init ==
    <<"register_core", "include_router", "register_extensions", "add_health_check",
      "add_exception_handlers", "add_middlewares", "add_route_dependencies">>

RECURSIVE IndexOf(_, _, _)
IndexOf(seq, x, i) ==
    IF i > Len(seq) THEN 0 ELSE IF seq[i] = x THEN i ELSE IndexOf(seq, x, i + 1)

\* The statement that follows statement s of __attrs_post_init__.
StepAfter(s) ==
    LET i == IndexOf(post_init, s, 1)
    IN  IF i = 0 \/ i = Len(post_init) THEN "done" ELSE post_init[i + 1]

-----------------------------------------------------------------------------
(* Policy overlay and extension hooks *)

\* Whether a scope selects a route: exact on the method and on the path template.
Matches(route, scope) == route.path = scope.path /\ route.method = scope.method

RECURSIVE DependenciesFor(_, _, _, _)
\* The dependencies one overlay adds to a route: its dependency list once for
\* every scope of the overlay that selects the route.
DependenciesFor(route, scopes, dependencies, i) ==
    IF i > Len(scopes) THEN << >>
    ELSE (IF Matches(route, scopes[i]) THEN dependencies ELSE << >>)
         \o DependenciesFor(route, scopes, dependencies, i + 1)

\* stac_fastapi.api.routes.add_route_dependencies(routes, scopes, dependencies)
RoutesWithDependencies(routes, scopes, dependencies) ==
    [i \in 1..Len(routes) |->
        [routes[i] EXCEPT !.dependencies =
            @ \o DependenciesFor(routes[i], scopes, dependencies, 1)]]

\* The routes ext.register(app) adds to the application.
ExtensionRoutes(ext) ==
    LET hook == RegisterHook(ext.type)
    IN  [i \in 1..Len(hook) |->
            [name |-> ext.type, path |-> app_state.router_prefix \o hook[i][1],
             method |-> hook[i][2], response_model |-> None,
             response_class |-> "response_class", endpoint |-> "extension",
             request_model |-> FixedModel("EmptyRequest"), dependencies |-> << >>]]

\* The body ping() returns.
ping == [message |-> "PONG"]

\* Mutant: the health-check router is created without the router prefix.
HealthCheckRoute_NoPrefix ==
    [name |-> "ping", path |-> "/_mgmt/ping", method |-> "GET",
     response_model |-> None, response_class |-> "JSONResponse", endpoint |-> "ping",
     request_model |-> FixedModel("EmptyRequest"), dependencies |-> << >>]

\* The route add_health_check's mgmt_router holds.
HealthCheckRoute ==
    [name |-> "ping", path |-> app_state.router_prefix \o "/_mgmt/ping", method |-> "GET",
     response_model |-> None, response_class |-> "JSONResponse", endpoint |-> "ping",
     request_model |-> FixedModel("EmptyRequest"), dependencies |-> << >>]

\* Mutant: the extension list is not injected.
InjectedBinding_NoExtensions(exts, t, d) ==
    [bound |-> TRUE, extensions |-> client.extensions, stac_version |-> STAC_VERSION,
     title |-> t, description |-> d]

\* The attributes __attrs_post_init__ injects into the client.
InjectedBinding(exts, t, d) ==
    [bound |-> TRUE, extensions |-> exts, stac_version |-> STAC_VERSION,
     title |-> t, description |-> d]

\* self.exceptions: the caller's mapping, DEFAULT_STATUS_CODES when none is passed.
ExceptionsAttribute(supplied, mapping) ==
    IF supplied THEN mapping ELSE DEFAULT_STATUS_CODES

\* add_exception_handlers(app, status_codes): one handler per entry.
ExceptionHandlers(status_codes) == status_codes

NoHandlers == [k \in {} |-> 0]

Descriptions == {"STAC API"}

-----------------------------------------------------------------------------
(* Initial state: no StacApi has been constructed, the client is unbound *)

Init ==
    /\ pc = "idle"
    /\ settings = [enable_response_models |-> FALSE, default_includes |-> "default"]
    /\ client = [bound |-> FALSE, extensions |-> << >>, stac_version |-> "",
                 title |-> "", description |-> ""]
    /\ extensions = << >>
    /\ exceptions = DEFAULT_STATUS_CODES
    /\ title = ""
    /\ description = ""
    /\ pagination_extension = "TokenPaginationExtension"
    /\ route_dependencies = << >>
    /\ router_prefix = ""
    /\ router_routes = << >>
    /\ app_routes = << >>
    /\ app_state = [settings |-> settings, router_prefix |-> Unset]
    /\ app_exception_handlers = NoHandlers
    /\ app_middleware = << >>
    /\ core_i = 1
    /\ ext_i = 1
    /\ dep_i = 1
    /\ overlay_log = << >>

-----------------------------------------------------------------------------
(* Actions *)

\* StacApi(settings, client, extensions, exceptions, ...): the attrs-generated
\* constructor with a fresh app and router, and the start of __attrs_post_init__
\* (the injection of the settings).  The same client is passed every time.
\* supplied tells whether the caller passes exceptions=mapping.
StacApi ==
    /\ pc = "idle"
    /\ \E erm \in BOOLEAN, exts \in ExtensionLists, supplied \in BOOLEAN,
          mapping \in CallerExceptions, t \in Titles, d \in Descriptions,
          deps \in RouteDependencyLists, prefix \in RouterPrefixes,
          pagination \in PaginationExtensionChoices :
          LET fields_ext == GetExtensionFrom(exts, "FieldsExtension", 1)
              s == [enable_response_models |-> erm,
                    default_includes |-> IF Truthy(fields_ext)
                                         THEN fields_ext.default_includes
                                         ELSE "default"]
          IN  /\ supplied \/ mapping = CHOOSE m \in CallerExceptions : TRUE
              /\ extensions' = exts
              /\ exceptions' = ExceptionsAttribute(supplied, mapping)
              /\ title' = t
              /\ description' = d
              /\ pagination_extension' = pagination
              /\ route_dependencies' = deps
              /\ router_prefix' = prefix
              /\ client' = InjectedBinding(exts, t, d)
              /\ settings' = s
              /\ app_state' = [settings |-> s, router_prefix |-> Unset]
    /\ router_routes' = << >>
    /\ app_routes' = << >>
    /\ app_exception_handlers' = NoHandlers
    /\ app_middleware' = << >>
    /\ core_i' = 1
    /\ ext_i' = 1
    /\ dep_i' = 1
    /\ overlay_log' = << >>
    /\ pc' = post_init[1]

\* One statement of register_core: self.router.add_api_route(route).
RegisterCoreStep(statement, route) ==
    /\ pc = "register_core"
    /\ core_i <= Len(register_core)
    /\ register_core[core_i] = statement
    /\ router_routes' = Append(router_routes, route)
    /\ core_i' = core_i + 1
    /\ pc' = IF core_i = Len(register_core) THEN StepAfter("register_core") ELSE pc
    /\ UNCHANGED <<settings, client, extensions, exceptions, title, description,
                 pagination_extension,
                   route_dependencies, router_prefix, app_routes, app_state,
                   app_exception_handlers, app_middleware, ext_i, dep_i, overlay_log>>

register_landing_page == RegisterCoreStep("register_landing_page", LandingPageRoute)

register_conformance_classes ==
    RegisterCoreStep("register_conformance_classes", ConformanceClassesRoute)

register_get_item == RegisterCoreStep("register_get_item", GetItemRoute)

register_post_global_search ==
    RegisterCoreStep("register_post_global_search", PostGlobalSearchRoute)

register_get_global_search ==
    RegisterCoreStep("register_get_global_search", GetGlobalSearchRoute)

register_post_search == RegisterCoreStep("register_post_search", PostSearchRoute)

register_get_search == RegisterCoreStep("register_get_search", GetSearchRoute)

register_get_collections ==
    RegisterCoreStep("register_get_collections", GetCollectionsRoute)

register_get_catalogs == RegisterCoreStep("register_get_catalogs", GetCatalogsRoute)

register_get_catalog_collections ==
    RegisterCoreStep("register_get_catalog_collections", GetCatalogCollectionsRoute)

register_get_collection ==
    RegisterCoreStep("register_get_collection", GetCollectionRoute)

register_get_catalog == RegisterCoreStep("register_get_catalog", GetCatalogRoute)

register_get_item_collection ==
    RegisterCoreStep("register_get_item_collection", GetItemCollectionRoute)

\* self.app.include_router(self.router) and the router prefix kept on app.state.
include_router ==
    /\ pc = "include_router"
    /\ app_routes' = app_routes \o router_routes
    /\ app_state' = [app_state EXCEPT !.router_prefix =
                        IF router_prefix # "" THEN router_prefix ELSE ""]
    /\ pc' = StepAfter("include_router")
    /\ UNCHANGED <<settings, client, extensions, exceptions, title, description,
                 pagination_extension,
                   route_dependencies, router_prefix, router_routes,
                   app_exception_handlers, app_middleware, core_i, ext_i, dep_i, overlay_log>>

\* for ext in self.extensions: ext.register(self.app)
register_extensions ==
    /\ pc = "register_extensions"
    /\ IF ext_i <= Len(extensions)
       THEN /\ app_routes' = app_routes \o ExtensionRoutes(extensions[ext_i])
            /\ ext_i' = ext_i + 1
            /\ pc' = pc
       ELSE /\ pc' = StepAfter("register_extensions")
            /\ UNCHANGED <<app_routes, ext_i>>
    /\ UNCHANGED <<settings, client, extensions, exceptions, title, description,
                 pagination_extension,
                   route_dependencies, router_prefix, router_routes, app_state,
                   app_exception_handlers, app_middleware, core_i, dep_i, overlay_log>>

\* self.add_health_check()
add_health_check ==
    /\ pc = "add_health_check"
    /\ app_routes' = Append(app_routes, HealthCheckRoute)
    /\ pc' = StepAfter("add_health_check")
    /\ UNCHANGED <<settings, client, extensions, exceptions, title, description,
                 pagination_extension,
                   route_dependencies, router_prefix, router_routes, app_state,
                   app_exception_handlers, app_middleware, core_i, ext_i, dep_i, overlay_log>>

\* add_exception_handlers(self.app, status_codes=self.exceptions)
add_exception_handlers ==
    /\ pc = "add_exception_handlers"
    /\ app_exception_handlers' = ExceptionHandlers(exceptions)
    /\ pc' = StepAfter("add_exception_handlers")
    /\ UNCHANGED <<settings, client, extensions, exceptions, title, description,
                 pagination_extension,
                   route_dependencies, router_prefix, router_routes, app_routes,
                   app_state, app_middleware, core_i, ext_i, dep_i, overlay_log>>

\* self.app.openapi = self.customize_openapi; for middleware in self.middlewares: ...
add_middlewares ==
    /\ pc = "add_middlewares"
    /\ app_middleware' = DefaultMiddlewares
    /\ pc' = StepAfter("add_middlewares")
    /\ UNCHANGED <<settings, client, extensions, exceptions, title, description,
                 pagination_extension,
                   route_dependencies, router_prefix, router_routes, app_routes,
                   app_state, app_exception_handlers, core_i, ext_i, dep_i, overlay_log>>

\* for scopes, dependencies in self.route_dependencies: self.add_route_dependencies(...)
add_route_dependencies ==
    /\ pc = "add_route_dependencies"
    /\ IF dep_i <= Len(route_dependencies)
       THEN /\ app_routes' = RoutesWithDependencies(app_routes,
                                 route_dependencies[dep_i].scopes,
                                 route_dependencies[dep_i].dependencies)
            /\ overlay_log' = Append(overlay_log, route_dependencies[dep_i])
            /\ dep_i' = dep_i + 1
            /\ pc' = pc
       ELSE /\ pc' = StepAfter("add_route_dependencies")
            /\ UNCHANGED <<app_routes, dep_i, overlay_log>>
    /\ UNCHANGED <<settings, client, extensions, exceptions, title, description,
                 pagination_extension,
                   route_dependencies, router_prefix, router_routes, app_state,
                   app_exception_handlers, app_middleware, core_i, ext_i>>

\* The assembled StacApi object is dropped; the client object it was given
\* lives on and can be passed to the next StacApi.
Discard ==
    /\ pc = "done"
    /\ pc' = "idle"
    /\ settings' = [enable_response_models |-> FALSE, default_includes |-> "default"]
    /\ extensions' = << >>
    /\ exceptions' = DEFAULT_STATUS_CODES
    /\ title' = ""
    /\ description' = ""
    /\ pagination_extension' = "TokenPaginationExtension"
    /\ route_dependencies' = << >>
    /\ router_prefix' = ""
    /\ router_routes' = << >>
    /\ app_routes' = << >>
    /\ app_state' = [settings |-> settings', router_prefix |-> Unset]
    /\ app_exception_handlers' = NoHandlers
    /\ app_middleware' = << >>
    /\ core_i' = 1
    /\ ext_i' = 1
    /\ dep_i' = 1
    /\ overlay_log' = << >>
    /\ UNCHANGED client

Next ==
    \/ StacApi
    \/ Discard
    \/ register_landing_page
    \/ register_conformance_classes
    \/ register_get_item
    \/ register_post_global_search
    \/ register_get_global_search
    \/ register_post_search
    \/ register_get_search
    \/ register_get_collections
    \/ register_get_catalogs
    \/ register_get_collection
    \/ register_get_catalog
    \/ register_get_item_collection
    \/ register_get_catalog_collections
    \/ include_router
    \/ register_extensions
    \/ add_health_check
    \/ add_exception_handlers
    \/ add_middlewares
    \/ add_route_dependencies

Spec == Init /\ [][Next]_vars

-----------------------------------------------------------------------------
(* Properties *)

Pair(r) == <<r.path, r.method>>

HasDuplicate(routes) ==
    \E i, j \in 1..Len(routes) : i < j /\ Pair(routes[i]) = Pair(routes[j])

Assembled == pc = "done"

\* The path a template has in the assembled application.
PathOf(template) == router_prefix \o template

\* The first route of the table at (template, method): the one the router serves.
RouteIndex(template, method) ==
    CHOOSE i \in 1..Len(app_routes) :
        /\ Pair(app_routes[i]) = <<PathOf(template), method>>
        /\ \A j \in 1..(i - 1) : Pair(app_routes[j]) # <<PathOf(template), method>>

HasRoute(template, method) ==
    \E i \in 1..Len(app_routes) : Pair(app_routes[i]) = <<PathOf(template), method>>

RouteAt(template, method) == app_routes[RouteIndex(template, method)]

\* The routes add_health_check added.
PingRoutes == {i \in 1..Len(app_routes) : app_routes[i].endpoint = "ping"}

\* C1: after any assembly no two entries of the final route table share the
\* same (path, method) pair.
C1_UniquePathMethod == Assembled => ~HasDuplicate(app_routes)

\* C2: a registration at a (path, method) pair that is already in the table
\* makes the assembly fail with a RouteConflictError: no step leaves a
\* duplicate in the table of an assembly that goes on.
C2_DuplicateRejected ==
    [][(~HasDuplicate(app_routes) /\ HasDuplicate(app_routes'))
           => pc' = "RouteConflictError"]_vars

Names(overlay, path, method) ==
    \E k \in 1..Len(overlay.scopes) :
        overlay.scopes[k].path = path /\ overlay.scopes[k].method = method

RECURSIVE ChainOf(_, _, _, _)
\* The dependencies of the overlays naming (path, method), in declaration order.
ChainOf(overlays, path, method, i) ==
    IF i > Len(overlays) THEN << >>
    ELSE (IF Names(overlays[i], path, method) THEN overlays[i].dependencies ELSE << >>)
         \o ChainOf(overlays, path, method, i + 1)

HasInstance(T) == \E i \in 1..Len(extensions) : isinstance(extensions[i], T)

\* C4 as stated: GET /collections declares the Collections schema when there
\* are no extensions, and no response model when a collection-search extension
\* is in the list, for every value of the other settings.
C4_CollectionsModelAnySettings ==
    Assembled =>
        /\ HasRoute("/collections", "GET")
        /\ (extensions = << >> =>
                RouteAt("/collections", "GET").response_model = "Collections")
        /\ (HasInstance("CollectionSearchExtension") =>
                RouteAt("/collections", "GET").response_model = None)

\* C4 as amended: with no extensions GET /collections declares the Collections
\* schema when response models are enabled and no response model when they are
\* disabled; with a collection-search extension in the list it declares no
\* response model, whatever the settings.
C4_CollectionsModel ==
    Assembled =>
        /\ HasRoute("/collections", "GET")
        /\ (extensions = << >> /\ settings.enable_response_models =>
                RouteAt("/collections", "GET").response_model = "Collections")
        /\ (extensions = << >> /\ ~settings.enable_response_models =>
                RouteAt("/collections", "GET").response_model = None)
        /\ (HasInstance("CollectionSearchExtension") =>
                RouteAt("/collections", "GET").response_model = None)

C4_Witness ==
    /\ Assembled
    /\ settings.enable_response_models
    /\ HasInstance("CollectionSearchExtension")
    /\ RouteAt("/collections", "GET").response_model = None

SearchPairs ==
    {<<"/search", "GET">>, <<"/search", "POST">>,
     <<"/catalogs/{catalog_id}/search", "GET">>,
     <<"/catalogs/{catalog_id}/search", "POST">>}

\* The response model a route other than the search routes declares when
\* response models are enabled, told from its handler.
OtherResponseModel(endpoint) ==
    CASE endpoint = "client.landing_page" -> "LandingPage"
      [] endpoint = "client.conformance" -> "ConformanceClasses"
      [] endpoint = "client.get_item" -> "Item"
      [] endpoint = "client.all_collections" ->
            IF HasInstance("CollectionSearchExtension") THEN None ELSE "Collections"
      [] endpoint = "client.all_catalogs" -> "Catalogs"
      [] endpoint = "client.get_catalog_collections" -> "Collections"
      [] endpoint = "client.get_collection" -> "Collection"
      [] endpoint = "client.get_catalog" -> "Catalog"
      [] endpoint = "client.item_collection" -> "ItemCollection"
      [] OTHER -> None

\* C5: with response models enabled, each of the four search routes declares
\* ItemCollection if and only if no fields extension is in the list, and no
\* response model otherwise; the response model of every other route is what
\* it is without regard to the fields extension.
C5_FieldsSuppressesSearchModels ==
    (Assembled /\ settings.enable_response_models) =>
        /\ \A p \in SearchPairs :
              /\ HasRoute(p[1], p[2])
              /\ (RouteAt(p[1], p[2]).response_model = "ItemCollection"
                    <=> ~HasInstance("FieldsExtension"))
              /\ (HasInstance("FieldsExtension") =>
                    RouteAt(p[1], p[2]).response_model = None)
        /\ \A i \in 1..Len(app_routes) :
              (\A p \in SearchPairs : Pair(app_routes[i]) # <<PathOf(p[1]), p[2]>>)
                  => app_routes[i].response_model =
                        OtherResponseModel(app_routes[i].endpoint)

C5_Witness ==
    /\ Assembled
    /\ settings.enable_response_models
    /\ HasInstance("FieldsExtension")
    /\ RouteAt("/search", "GET").response_model = None

\* The (path, method) pairs of a route table, in table order.
Pairs(routes) == [i \in 1..Len(routes) |-> Pair(routes[i])]

RECURSIVE HookRouteCount(_, _)
\* The number of routes the register hooks of exts[i..] add.
HookRouteCount(exts, i) ==
    IF i > Len(exts) THEN 0
    ELSE Len(RegisterHook(exts[i].type)) + HookRouteCount(exts, i + 1)

\* Every core route, every route of an extension hook and the health-check
\* route are in the table.
AllRoutesExist ==
    /\ Len(router_routes) = 13
    /\ \A i \in 1..13 : app_routes[i].endpoint = router_routes[i].endpoint
    /\ PingRoutes # {}
    /\ Len(app_routes) = 13 + HookRouteCount(extensions, 1) + 1
    /\ \A i \in 1..Len(extensions) :
          \A k \in 1..Len(RegisterHook(extensions[i].type)) :
              HasRoute(RegisterHook(extensions[i].type)[k][1],
                       RegisterHook(extensions[i].type)[k][2])

\* C6: the overlays are applied only after every route exists, each entry of
\* route_dependencies exactly once and in declaration order, and no route is
\* added to the table once the first overlay has been applied.
C6_OverlaysAfterRoutes ==
    /\ [](overlay_log # << >> => AllRoutesExist)
    /\ [](Len(overlay_log) <= Len(route_dependencies)
            /\ overlay_log = SubSeq(route_dependencies, 1, Len(overlay_log)))
    /\ [](Assembled => overlay_log = route_dependencies)
    /\ [][(overlay_log # << >> /\ pc' # "idle")
             => Pairs(app_routes') = Pairs(app_routes)]_vars
    /\ [][(overlay_log' # overlay_log /\ pc' # "idle")
             => (/\ Len(overlay_log) < Len(route_dependencies)
                 /\ overlay_log' =
                       Append(overlay_log, route_dependencies[Len(overlay_log) + 1]))]_vars

C6_Witness ==
    /\ Assembled
    /\ Len(overlay_log) = 2
    /\ overlay_log[1] # overlay_log[2]
    /\ HookRouteCount(extensions, 1) > 0

\* C7: for every error kind the assembled application answers with the
\* caller's status code when the caller's mapping has the kind and with the
\* default status code otherwise.
C7_DefaultsOverriddenByCaller ==
    Assembled =>
        \A k \in ErrorKinds :
            /\ k \in DOMAIN app_exception_handlers
            /\ app_exception_handlers[k] =
                  IF k \in DOMAIN exceptions THEN exceptions[k]
                  ELSE DEFAULT_STATUS_CODES[k]

\* C8 as stated: once the binding of the client has been written it never
\* changes again, over any sequence of assemblies.
C8_BindingWrittenOnce == [][client.bound => client' = client]_vars

\* C8 as amended: every assembly writes the binding exactly once, in its first
\* step, with its own extension list, version, title and description; no later
\* step of the assembly changes it, and it keeps its value until the client is
\* passed to another assembly.
C8_BindingWrittenPerAssembly ==
    [][IF pc = "idle" /\ pc' # "idle"
       THEN client' = [bound |-> TRUE, extensions |-> extensions',
                       stac_version |-> STAC_VERSION, title |-> title',
                       description |-> description']
       ELSE client' = client]_vars

C8_Witness ==
    /\ Assembled
    /\ client.bound
    /\ client.extensions = extensions
    /\ Len(extensions) = 2
    /\ extensions[1] # extensions[2]

\* The documented endpoint surface, as (path template, method).
DocumentedSurface ==
    {<<"/", "GET">>, <<"/conformance", "GET">>, <<"/collections", "GET">>,
     <<"/catalogs", "GET">>, <<"/catalogs/{catalog_id}", "GET">>,
     <<"/catalogs/{catalog_id}/collections", "GET">>,
     <<"/catalogs/{catalog_id}/collections/{collection_id}", "GET">>,
     <<"/catalogs/{catalog_id}/collections/{collection_id}/items", "GET">>,
     <<"/catalogs/{catalog_id}/collections/{collection_id}/items/{item_id}", "GET">>,
     <<"/search", "GET">>, <<"/search", "POST">>,
     <<"/catalogs/{catalog_id}/search", "GET">>,
     <<"/catalogs/{catalog_id}/search", "POST">>, <<"/_mgmt/ping", "GET">>}

DocumentedGroup(endpoint) ==
    CASE endpoint = "client.landing_page" -> 1
      [] endpoint = "client.conformance" -> 2
      [] endpoint \in {"client.get_item", "client.item_collection"} -> 3
      [] endpoint \in {"client.post_global_search", "client.get_global_search",
                       "client.post_search", "client.get_search"} -> 4
      [] OTHER -> 5

\* The group of a core route in the order of the code: the item-collection
\* listing is registered with the collection and catalog routes.
RegisteredGroup(endpoint) ==
    IF endpoint = "client.item_collection" THEN 5 ELSE DocumentedGroup(endpoint)

\* C10 as stated: the core routes are registered landing page, conformance,
\* item-level routes, search routes, collection/catalog listing routes; no
\* route of an earlier group is registered after a route of a later group.
C10_DocumentedOrder ==
    \A i, j \in 1..Len(router_routes) :
        i < j => DocumentedGroup(router_routes[i].endpoint)
                    <= DocumentedGroup(router_routes[j].endpoint)

\* C10 as amended: the core routes are registered landing page, conformance,
\* get-item, the four search routes, then the collection and catalog routes
\* together with the item-collection listing, which comes after get-catalog
\* and before the catalog-collections listing; get-item is registered before
\* every search route and no search route after a collection or catalog route.
C10_RegisteredOrder ==
    /\ \A i, j \in 1..Len(router_routes) :
          i < j => RegisteredGroup(router_routes[i].endpoint)
                      <= RegisteredGroup(router_routes[j].endpoint)
    /\ \A i, j \in 1..Len(router_routes) :
          (/\ router_routes[i].endpoint = "client.item_collection"
           /\ router_routes[j].endpoint = "client.get_catalog") => j < i
    /\ \A i, j \in 1..Len(router_routes) :
          (/\ router_routes[i].endpoint = "client.item_collection"
           /\ router_routes[j].endpoint = "client.get_catalog_collections") => i < j
    /\ (pc \notin {"idle", "register_core"} =>
          /\ Len(router_routes) = 13
          /\ \A g \in 1..5 :
                \E i \in 1..13 : RegisteredGroup(router_routes[i].endpoint) = g)

C10_Witness ==
    /\ Assembled
    /\ Len(router_routes) = 13
    /\ router_routes[12].endpoint = "client.item_collection"

\* The classes get_extension is asked for.
LookupTypes == ExtensionTypes \cup {"PaginationExtension"}

\* The positions of the instances of class T in the extension list.
InstancesOf(T) == {i \in 1..Len(extensions) : isinstance(extensions[i], T)}

\* C11: get_extension(T) returns the first element of the extension list, in
\* list order, that is an instance of T, and None exactly when no element is
\* an instance of T; the steps that call it leave the extension list as it was.
C11_GetExtensionFirstMatch ==
    /\ [](\A T \in LookupTypes :
            /\ (get_extension(T) = NoExtension <=> InstancesOf(T) = {})
            /\ (InstancesOf(T) # {} =>
                  \E i \in InstancesOf(T) :
                      /\ \A j \in InstancesOf(T) : i <= j
                      /\ get_extension(T) = extensions[i]))
    /\ [][pc = "register_core" => extensions' = extensions]_vars

\* The collections listing has been registered with two different instances
\* of CollectionSearchExtension in the list, the subclass instance first.
C11_Witness ==
    /\ pc = "register_core"
    /\ core_i > 8
    /\ Len(extensions) = 2
    /\ extensions[1].type = "CustomCollectionSearchExtension"
    /\ extensions[2].type = "CollectionSearchExtension"
    /\ get_extension("CollectionSearchExtension") = extensions[1]

\* The item-collection listing routes registered so far.
ItemCollectionRoutes ==
    {i \in 1..Len(router_routes) :
        Pair(router_routes[i]) =
            <<router_prefix \o "/catalogs/{catalog_id}/collections/{collection_id}/items",
              "GET">>}

\* C12: the request model of GET /catalogs/{catalog_id}/collections/
\* {collection_id}/items is built on the base ItemCollectionUri schema; it
\* carries the GET mixin of the first extension that is an instance of the
\* configured pagination_extension class when there is one, and no mixin at all
\* otherwise, whatever other extensions are in the list.
C12_ItemCollectionRequestModel ==
    \A i \in ItemCollectionRoutes :
        LET model == router_routes[i].request_model
        IN  /\ model.base = "ItemCollectionUri"
            /\ (model.mixins # << >> <=> HasInstance(pagination_extension))
            /\ (HasInstance(pagination_extension) =>
                  model.mixins = <<get_extension(pagination_extension).GET>>)
            /\ (~HasInstance(pagination_extension) => model.mixins = << >>)

\* Both cases in one run of assembly: the default class configured with a token
\* pagination extension second in the list, behind an extension of another class.
C12_Witness ==
    /\ pc = "done"
    /\ pagination_extension = "TokenPaginationExtension"
    /\ Len(extensions) = 2
    /\ extensions[1].type = "FieldsExtension"
    /\ extensions[2].type = "TokenPaginationExtension"
    /\ \E i \in ItemCollectionRoutes :
          router_routes[i].request_model.mixins = <<"TokenPaginationExtension.GET">>

====
